---- MODULE Spec2Model ----
(***************************************************************************)
(* Model of the descriptor chains of typescript-package/descriptor-chain:  *)
(*   - the Minimal chain: class DescriptorChain implementing               *)
(*     DescriptorChainCore (descriptor-chain.class.ts:21-214), and         *)
(*   - the stateful chain: class DescriptorChain extending                 *)
(*     DescriptorChainBase (descriptor-chain.class.ts:235-260 over         *)
(*     descriptor-chain-base.abstract.ts:22-346).                          *)
(* One instance of each is constructed over the same (object, key) and     *)
(* every call is made on both.  The snapshot storage is a JavaScript       *)
(* array, modelled with its length and its own properties, so that holes,  *)
(* negative property keys and the start clamping of splice are kept.       *)
(***************************************************************************)
EXTENDS Integers, FiniteSets, Sequences, TLC

\* ------------------------------------------------------------------ bounds
\* Largest array length the calls are allowed to produce.
MaxSize == 2
\* Index arguments of delete and setCurrentIndex range over -MaxNeg .. MaxSize.
MaxNeg == 2
\* Largest number of counted calls of one kind in SpecCount.
MaxCalls == 3

Indexes == (0 - MaxNeg)..MaxSize
\* Index arguments of set and update: one negative key, every element position
\* and, below MaxSize, positions past the end.
StoreIndexes == (0 - 1)..(MaxSize - 1)

Variants == {"minimal", "stateful"}

Keys == {"a"}
Objects == {"obj"}

\* ------------------------------------------------------------- snapshots
\* A snapshot is an object: a function from its own property names to values.
Snapshots == {[value |-> 1, writable |-> TRUE], [value |-> 2, writable |-> TRUE]}
\* Arguments of update: objects carrying only some of the fields.
Partials == {[value |-> 2]}

\* The JavaScript value undefined (a hole or a missing property reads as it).
undefined == [undefined |-> TRUE]

\* Object spread {...a, ...b}: own properties of a, overwritten by those of b;
\* spreading undefined contributes nothing.
ownKeys(o) == IF o = undefined THEN {} ELSE DOMAIN o
spread(a, b) ==
    [f \in ownKeys(a) \cup ownKeys(b) |-> IF f \in ownKeys(b) THEN b[f] ELSE a[f]]

\* ------------------------------------------------------ JavaScript arrays
\* An array: its length and its own properties keyed by integers.  Keys
\* 0 .. length-1 are elements (a missing one is a hole); a negative key is an
\* ordinary property that length never touches.
emptyArray == [length |-> 0, props |-> [k \in {} |-> undefined]]

\* a[index]
read(a, index) == IF index \in DOMAIN a.props THEN a.props[index] ELSE undefined

\* a[index] = value
assign(a, index, value) ==
    [length |-> IF index >= a.length THEN index + 1 ELSE a.length,
     props |-> [k \in DOMAIN a.props \cup {index} |->
                   IF k = index THEN value ELSE a.props[k]]]

\* a.unshift(value): what push would be if it inserted at the front (used by
\* the faulty variant Stateful_addFront).
pushFront(a, value) ==
    [length |-> a.length + 1,
     props |-> [k \in {0} \cup {j + 1 : j \in {i \in DOMAIN a.props : i >= 0}}
                        \cup {i \in DOMAIN a.props : i < 0} |->
                   IF k = 0 THEN value
                   ELSE IF k < 0 THEN a.props[k] ELSE a.props[k - 1]]]
\* a.push(value)
push(a, value) == assign(a, a.length, value)

\* a.length = 0
truncate(a) ==
    [length |-> 0, props |-> [k \in {i \in DOMAIN a.props : i < 0} |-> a.props[k]]]

\* a.splice(start, 1): a negative start counts from the end and is clamped to
\* 0, a start past the end is clamped to length; at most one element is
\* removed and the elements after it move down, holes staying holes.
spliceStart(a, start) ==
    IF start < 0
    THEN (IF a.length + start > 0 THEN a.length + start ELSE 0)
    ELSE (IF start < a.length THEN start ELSE a.length)
spliceCount(a, start) == IF a.length - spliceStart(a, start) >= 1 THEN 1 ELSE 0
\* delete a[start]: removes the element but keeps the length (used by the
\* faulty variant Base_deleteLeavesHole).
spliceLeavesHole(a, start) ==
    IF spliceCount(a, start) = 0 THEN a
    ELSE [length |-> a.length,
          props |-> [k \in DOMAIN a.props \ {spliceStart(a, start)} |-> a.props[k]]]
splice(a, start) ==
    LET s == spliceStart(a, start)
        n == spliceCount(a, start)
        kept == {k \in DOMAIN a.props : k < s}
        moved == {k - n : k \in {i \in DOMAIN a.props : i >= s + n}}
    IN  [length |-> a.length - n,
         props |-> [k \in kept \cup moved |->
                       IF k \in kept THEN a.props[k] ELSE a.props[k + n]]]

\* An array iterator, as a.entries() and a.values() create it: it refers to
\* the live array, starts at index 0 and has yielded nothing.  out records
\* what next() has yielded so far.
IterIds == {1, 2}
noIterator == [kind |-> "none", next |-> 0, done |-> TRUE, out |-> <<>>]
arrayIterator(kind) == [kind |-> kind, next |-> 0, done |-> FALSE, out |-> <<>>]
\* it.next() over the array a: exhausted once the index reaches a.length (and
\* for good); otherwise yields a[index] (a hole reads undefined), or the pair
\* [index, a[index]] for entries, and advances.
iteratorNext(it, a) ==
    IF it.done \/ it.next >= a.length
    THEN [it EXCEPT !.done = TRUE]
    ELSE [it EXCEPT !.next = @ + 1,
                    !.out = Append(@, IF it.kind = "entries"
                                      THEN <<it.next, read(a, it.next)>>
                                      ELSE read(a, it.next))]

\* ------------------------------------------------------------------ state
VARIABLES
    data,          \* #data of each chain
    currentIndex,  \* #currentIndex of each chain
    active,        \* #active of the stateful chain
    enabled,       \* #enabled of the stateful chain
    key,           \* #key, the same for both chains
    object,        \* #object, the same for both chains
    call,          \* the last call made: operation and arguments
    thrown,        \* the errors the last call raised, per chain
    queried,       \* the descriptor-source queries the last call made, per chain
    counts,        \* calls counted by SpecCount
    iters          \* the iterators entries() and values() returned (SpecIter)

vars == <<data, currentIndex, active, enabled, key, object, call, thrown,
          queried, counts, iters>>

\* The error load() raises: new Error(`Descriptor not found for key: ${String(key)}`).
\* Keys are strings here, and String(k) of a string is k.
NotFoundError(k) == [name |-> "Error", message |-> <<"Descriptor not found for key: ", k>>]

\* ------------------------------------------- Minimal chain (class.ts:21-214)
\* Faulty variant: the Minimal chain reports the default of the stateful one.
Minimal_activeDefault == TRUE
Minimal_active == FALSE
Minimal_enabled == FALSE
Minimal_currentIndex == currentIndex.minimal
Minimal_current == read(data.minimal, Minimal_currentIndex)
Minimal_key == key
Minimal_lastIndex == data.minimal.length - 1
Minimal_size == data.minimal.length
Minimal_add(a, descriptor) == push(a, descriptor)
Minimal_clear(a) == truncate(a)
\* Faulty variant: delete tests the index first.
Minimal_deleteChecked(a, index) ==
    IF index >= 0 /\ index < a.length THEN splice(a, index) ELSE a
Minimal_delete(a, index) == splice(a, index)
Minimal_entries == arrayIterator("entries")
Minimal_first == read(data.minimal, 0)
Minimal_get(index) == read(data.minimal, index)
Minimal_has(index) == index >= 0 /\ index < data.minimal.length
Minimal_last == read(data.minimal, Minimal_lastIndex)
Minimal_load(a, descriptor, k) ==
    IF descriptor # undefined
    THEN [data |-> Minimal_add(a, descriptor), thrown |-> {}]
    ELSE [data |-> a, thrown |-> {NotFoundError(k)}]
Minimal_set(a, index, value) == assign(a, index, value)
Minimal_setCurrentIndex(index) == index
Minimal_update(a, index, value) == assign(a, index, spread(read(a, index), value))
Minimal_values == arrayIterator("values")

\* ---------------------- stateful chain (base.abstract.ts:22-346, class.ts:235-260)
Base_active == active
Base_currentIndex == currentIndex.stateful
Base_current == read(data.stateful, Base_currentIndex)
Base_enabled == enabled
Base_key == key
Base_object == object
Base_lastIndex == data.stateful.length - 1
Base_nextIndex == Base_currentIndex + 1
Base_next == read(data.stateful, Base_nextIndex)
Base_previousIndex == Base_currentIndex - 1
Base_previous == read(data.stateful, Base_previousIndex)
Base_size == data.stateful.length
\* Faulty variant: add inserts at the front.
Stateful_addFront(a, descriptor) == pushFront(a, descriptor)
Stateful_add(a, descriptor) == push(a, descriptor)
Base_clear(a) == truncate(a)
\* Faulty variants: delete removes the element after index; delete leaves a hole.
Base_deleteNext(a, index) == splice(a, index + 1)
Base_deleteLeavesHole(a, index) == spliceLeavesHole(a, index)
Base_delete(a, index) == splice(a, index)
\* Faulty variant: entries() returns an iterator that skips index 0.
Base_entriesFromOne == [arrayIterator("entries") EXCEPT !.next = 1]
Base_entries == arrayIterator("entries")
Base_first == read(data.stateful, 0)
Base_get(index) == read(data.stateful, index)
Base_has(index) == index >= 0 /\ index < data.stateful.length
Base_last == read(data.stateful, Base_lastIndex)
\* Faulty variant: load appends before it tests the answer.
Base_loadAppendsFirst(a, descriptor, k) ==
    IF descriptor # undefined
    THEN [data |-> Stateful_add(a, descriptor), thrown |-> {}]
    ELSE [data |-> Stateful_add(a, descriptor), thrown |-> {NotFoundError(k)}]
Base_load(a, descriptor, k) ==
    IF descriptor # undefined
    THEN [data |-> Stateful_add(a, descriptor), thrown |-> {}]
    ELSE [data |-> a, thrown |-> {NotFoundError(k)}]
\* Faulty variant: set writes the position after index.
Base_setNext(a, index, value) == assign(a, index + 1, value)
Base_set(a, index, value) == assign(a, index, value)
\* Faulty variant: the cursor is set one past the index.
Base_setCurrentIndexNext(index) == index + 1
Base_setCurrentIndex(index) == index
\* Faulty variant: update replaces the element instead of merging into it.
Base_updateReplaces(a, index, value) == assign(a, index, value)
Base_update(a, index, value) == assign(a, index, spread(read(a, index), value))
Base_values == arrayIterator("values")

\* ------------------------------------------ the contract, by chain variant
size(v) == IF v = "minimal" THEN Minimal_size ELSE Base_size
lastIndex(v) == IF v = "minimal" THEN Minimal_lastIndex ELSE Base_lastIndex
has(v, index) == IF v = "minimal" THEN Minimal_has(index) ELSE Base_has(index)
get(v, index) == IF v = "minimal" THEN Minimal_get(index) ELSE Base_get(index)
first(v) == IF v = "minimal" THEN Minimal_first ELSE Base_first
last(v) == IF v = "minimal" THEN Minimal_last ELSE Base_last
current(v) == IF v = "minimal" THEN Minimal_current ELSE Base_current
getCurrentIndex(v) == IF v = "minimal" THEN Minimal_currentIndex ELSE Base_currentIndex
getActive(v) == IF v = "minimal" THEN Minimal_active ELSE Base_active
getEnabled(v) == IF v = "minimal" THEN Minimal_enabled ELSE Base_enabled
update(v, a, index, value) ==
    IF v = "minimal" THEN Minimal_update(a, index, value) ELSE Base_update(a, index, value)

\* ----------------------------------------------------------------- calls
NoIndex == 0 - MaxNeg - 1
NoCall == [op |-> "new", index |-> NoIndex, value |-> undefined]
NoThrow == [v \in Variants |-> {}]
NoQuery == [v \in Variants |-> <<>>]

Init ==
    /\ data = [minimal |-> emptyArray, stateful |-> emptyArray]
    /\ currentIndex = [minimal |-> 0, stateful |-> 0]
    /\ active = TRUE
    /\ enabled = TRUE
    /\ key \in Keys
    /\ object \in Objects
    /\ call = NoCall
    /\ thrown = NoThrow
    /\ queried = NoQuery
    /\ counts = [v \in Variants |-> [add |-> 0, load |-> 0, delete |-> 0]]
    /\ iters = [v \in Variants |-> [k \in IterIds |-> noIterator]]

Add(descriptor) ==
    /\ Minimal_size < MaxSize /\ Base_size < MaxSize
    /\ data' = [minimal |-> Minimal_add(data.minimal, descriptor),
                stateful |-> Stateful_add(data.stateful, descriptor)]
    /\ call' = [op |-> "add", index |-> NoIndex, value |-> descriptor]
    /\ thrown' = NoThrow
    /\ queried' = NoQuery
    /\ UNCHANGED <<currentIndex, active, enabled, key, object>>

\* descriptor is the answer of Descriptor.fromProperty(object, key).
Load(descriptor) ==
    /\ descriptor # undefined => (Minimal_size < MaxSize /\ Base_size < MaxSize)
    /\ data' = [minimal |-> Minimal_load(data.minimal, descriptor, key).data,
                stateful |-> Base_load(data.stateful, descriptor, key).data]
    /\ thrown' = [minimal |-> Minimal_load(data.minimal, descriptor, key).thrown,
                  stateful |-> Base_load(data.stateful, descriptor, key).thrown]
    /\ queried' = [v \in Variants |-> << <<object, key>> >>]
    /\ call' = [op |-> "load", index |-> NoIndex, value |-> descriptor]
    /\ UNCHANGED <<currentIndex, active, enabled, key, object>>

\* Faulty variants: clear also forgets the key; clear also rewinds the cursor.
ClearResetsKey ==
    /\ data' = [minimal |-> Minimal_clear(data.minimal),
                stateful |-> Base_clear(data.stateful)]
    /\ key' = ""
    /\ call' = [op |-> "clear", index |-> NoIndex, value |-> undefined]
    /\ thrown' = NoThrow
    /\ queried' = NoQuery
    /\ UNCHANGED <<currentIndex, active, enabled, object>>

ClearResetsCursor ==
    /\ data' = [minimal |-> Minimal_clear(data.minimal),
                stateful |-> Base_clear(data.stateful)]
    /\ currentIndex' = [minimal |-> 0, stateful |-> 0]
    /\ call' = [op |-> "clear", index |-> NoIndex, value |-> undefined]
    /\ thrown' = NoThrow
    /\ queried' = NoQuery
    /\ UNCHANGED <<active, enabled, key, object>>

Clear ==
    /\ data' = [minimal |-> Minimal_clear(data.minimal),
                stateful |-> Base_clear(data.stateful)]
    /\ call' = [op |-> "clear", index |-> NoIndex, value |-> undefined]
    /\ thrown' = NoThrow
    /\ queried' = NoQuery
    /\ UNCHANGED <<currentIndex, active, enabled, key, object>>

Delete(index) ==
    /\ data' = [minimal |-> Minimal_delete(data.minimal, index),
                stateful |-> Base_delete(data.stateful, index)]
    /\ call' = [op |-> "delete", index |-> index, value |-> undefined]
    /\ thrown' = NoThrow
    /\ queried' = NoQuery
    /\ UNCHANGED <<currentIndex, active, enabled, key, object>>

Set(index, value) ==
    /\ data' = [minimal |-> Minimal_set(data.minimal, index, value),
                stateful |-> Base_set(data.stateful, index, value)]
    /\ call' = [op |-> "set", index |-> index, value |-> value]
    /\ thrown' = NoThrow
    /\ queried' = NoQuery
    /\ UNCHANGED <<currentIndex, active, enabled, key, object>>

Update(index, value) ==
    /\ data' = [minimal |-> Minimal_update(data.minimal, index, value),
                stateful |-> Base_update(data.stateful, index, value)]
    /\ call' = [op |-> "update", index |-> index, value |-> value]
    /\ thrown' = NoThrow
    /\ queried' = NoQuery
    /\ UNCHANGED <<currentIndex, active, enabled, key, object>>

SetCurrentIndex(index) ==
    /\ currentIndex' = [minimal |-> Minimal_setCurrentIndex(index),
                        stateful |-> Base_setCurrentIndex(index)]
    /\ call' = [op |-> "setCurrentIndex", index |-> index, value |-> undefined]
    /\ thrown' = NoThrow
    /\ queried' = NoQuery
    /\ UNCHANGED <<data, active, enabled, key, object>>

\* activate, deactivate, enable, disable exist on the stateful chain only.
\* Faulty variant: activate also enables.
ActivateEnables ==
    /\ active' = TRUE
    /\ enabled' = TRUE
    /\ call' = [op |-> "activate", index |-> NoIndex, value |-> undefined]
    /\ thrown' = NoThrow
    /\ queried' = NoQuery
    /\ UNCHANGED <<data, currentIndex, key, object>>

Activate ==
    /\ active' = TRUE
    /\ call' = [op |-> "activate", index |-> NoIndex, value |-> undefined]
    /\ thrown' = NoThrow
    /\ queried' = NoQuery
    /\ UNCHANGED <<data, currentIndex, enabled, key, object>>

Deactivate ==
    /\ active' = FALSE
    /\ call' = [op |-> "deactivate", index |-> NoIndex, value |-> undefined]
    /\ thrown' = NoThrow
    /\ queried' = NoQuery
    /\ UNCHANGED <<data, currentIndex, enabled, key, object>>

Enable ==
    /\ enabled' = TRUE
    /\ call' = [op |-> "enable", index |-> NoIndex, value |-> undefined]
    /\ thrown' = NoThrow
    /\ queried' = NoQuery
    /\ UNCHANGED <<data, currentIndex, active, key, object>>

Disable ==
    /\ enabled' = FALSE
    /\ call' = [op |-> "disable", index |-> NoIndex, value |-> undefined]
    /\ thrown' = NoThrow
    /\ queried' = NoQuery
    /\ UNCHANGED <<data, currentIndex, active, key, object>>

Next ==
    \/ \E d \in Snapshots : Add(d) /\ UNCHANGED <<counts, iters>>
    \/ \E d \in Snapshots \cup {undefined} : Load(d) /\ UNCHANGED <<counts, iters>>
    \/ Clear /\ UNCHANGED <<counts, iters>>
    \/ \E i \in Indexes : Delete(i) /\ UNCHANGED <<counts, iters>>
    \/ \E i \in StoreIndexes, d \in Snapshots : Set(i, d) /\ UNCHANGED <<counts, iters>>
    \/ \E i \in StoreIndexes, d \in Partials \cup Snapshots :
          Update(i, d) /\ UNCHANGED <<counts, iters>>
    \/ \E i \in Indexes : SetCurrentIndex(i) /\ UNCHANGED <<counts, iters>>
    \/ Activate /\ UNCHANGED <<counts, iters>>
    \/ Deactivate /\ UNCHANGED <<counts, iters>>
    \/ Enable /\ UNCHANGED <<counts, iters>>
    \/ Disable /\ UNCHANGED <<counts, iters>>

Spec == Init /\ [][Next]_vars

\* ------------------------------------------------- counted calls (SpecCount)
\* add, load and delete only, with the calls counted per chain: every add, every
\* load that did not raise, every delete that changed the stored elements.
CountedAdd(descriptor) ==
    /\ \A v \in Variants : counts[v].add < MaxCalls
    /\ Add(descriptor)
    /\ counts' = [v \in Variants |-> [counts[v] EXCEPT !.add = @ + 1]]
    /\ UNCHANGED iters

CountedLoad(descriptor) ==
    /\ \A v \in Variants : counts[v].load < MaxCalls
    /\ Load(descriptor)
    /\ counts' = [v \in Variants |->
                    [counts[v] EXCEPT !.load = @ + (IF thrown'[v] = {} THEN 1 ELSE 0)]]
    /\ UNCHANGED iters

CountedDelete(index) ==
    /\ \A v \in Variants : counts[v].delete < MaxCalls
    /\ Delete(index)
    /\ counts' = [v \in Variants |->
                    [counts[v] EXCEPT
                       !.delete = @ + (IF data'[v].props # data[v].props THEN 1 ELSE 0)]]
    /\ UNCHANGED iters

NextCount ==
    \/ \E d \in Snapshots : CountedAdd(d)
    \/ \E d \in Snapshots \cup {undefined} : CountedLoad(d)
    \/ \E i \in Indexes : CountedDelete(i)

SpecCount == Init /\ [][NextCount]_vars

\* ------------------------------------------------ iteration (SpecIter)
\* The chain is filled and changed by add, set, delete and clear while no
\* iterator is part-way through (the caller drops its iterators before it
\* changes the chain); entries() and values() may be called at any time, and
\* the iterators they returned are stepped in any order.
Unshared == UNCHANGED <<data, currentIndex, active, enabled, key, object,
                        thrown, queried, counts>>

Entries(k) ==
    /\ iters' = [minimal |-> [iters.minimal EXCEPT ![k] = Minimal_entries],
                 stateful |-> [iters.stateful EXCEPT ![k] = Base_entries]]
    /\ call' = [op |-> "entries", index |-> NoIndex, value |-> undefined]
    /\ Unshared

Values(k) ==
    /\ iters' = [minimal |-> [iters.minimal EXCEPT ![k] = Minimal_values],
                 stateful |-> [iters.stateful EXCEPT ![k] = Base_values]]
    /\ call' = [op |-> "values", index |-> NoIndex, value |-> undefined]
    /\ Unshared

IteratorNext(k) ==
    /\ \A v \in Variants : iters[v][k].kind # "none"
    /\ iters' = [v \in Variants |->
                    [iters[v] EXCEPT ![k] = iteratorNext(iters[v][k], data[v])]]
    /\ UNCHANGED call
    /\ Unshared

NoneMidway == \A v \in Variants : \A k \in IterIds : iters[v][k].done
DropIterators == iters' = [v \in Variants |-> [k \in IterIds |-> noIterator]]

NextIter ==
    \/ \E d \in Snapshots :
          NoneMidway /\ Add(d) /\ DropIterators /\ UNCHANGED counts
    \/ \E i \in StoreIndexes, d \in Snapshots :
          NoneMidway /\ Set(i, d) /\ DropIterators /\ UNCHANGED counts
    \/ \E i \in Indexes :
          NoneMidway /\ Delete(i) /\ DropIterators /\ UNCHANGED counts
    \/ NoneMidway /\ Clear /\ DropIterators /\ UNCHANGED counts
    \/ \E k \in IterIds : Entries(k)
    \/ \E k \in IterIds : Values(k)
    \/ \E k \in IterIds : IteratorNext(k)

SpecIter == Init /\ [][NextIter]_vars

\* ---------------------------------------------------------------- claims
Elements(v) == 0..(size(v) - 1)

\* C1: after any sequence of add, load and delete calls on fresh chains, size
\* is the number of add calls plus the loads that did not fail minus the
\* deletes that removed a snapshot, and size is lastIndex + 1.
C1_SizeIsNetCount ==
    \A v \in Variants :
        /\ size(v) = (counts[v].add + counts[v].load) - counts[v].delete
        /\ size(v) = lastIndex(v) + 1
C1_Witness ==
    \E v \in Variants :
        /\ counts[v].add >= 1 /\ counts[v].load >= 1 /\ counts[v].delete >= 1
        /\ size(v) >= 1

\* C2: a load whose descriptor source answers absent raises the not-found
\* error naming the bound key on both chains and leaves the snapshots, the
\* cursor, active and enabled as they were.
C2_FailedLoadKeepsState ==
    [][(call'.op = "load" /\ call'.value = undefined) =>
          /\ \A v \in Variants : thrown'[v] = {NotFoundError(key)}
          /\ data' = data
          /\ currentIndex' = currentIndex
          /\ active' = active
          /\ enabled' = enabled]_vars
C2_Witness ==
    /\ call.op = "load" /\ call.value = undefined
    /\ \A v \in Variants : thrown[v] = {NotFoundError(key)} /\ size(v) >= 1
    /\ currentIndex.stateful # 0
    /\ ~active

\* C3: every load queries the descriptor source once, for the bound object
\* and key; when the answer is a snapshot S the load raises nothing, size grows
\* by one, last() is S and every element stored before keeps index and content.
C3_LoadAppendsFetched ==
    [][call'.op = "load" =>
          \A v \in Variants :
              /\ queried'[v] = << <<object, key>> >>
              /\ call'.value # undefined =>
                    /\ thrown'[v] = {}
                    /\ size(v)' = size(v) + 1
                    /\ last(v)' = call'.value
                    /\ \A i \in Elements(v) : get(v, i)' = get(v, i)]_vars
C3_Witness ==
    /\ call.op = "load" /\ call.value # undefined
    /\ \A v \in Variants :
          /\ thrown[v] = {}
          /\ size(v) = MaxSize
          /\ get(v, 0) \notin {undefined, call.value}

\* C4 (as claimed): delete(index) with has(index) false changes nothing and
\* raises nothing.
C4_OutOfRangeDeleteIsNoOp ==
    [][\A v \in Variants :
          (call'.op = "delete" /\ ~has(v, call'.index)) =>
              /\ data'[v] = data[v]
              /\ currentIndex'[v] = currentIndex[v]
              /\ thrown'[v] = {}]_vars

\* C5 (as claimed): no gaps: every index below size holds a stored snapshot.
C5_NoGaps == \A v \in Variants : \A i \in Elements(v) : get(v, i) # undefined

\* C6 (as claimed): whenever size >= 1 the cursor lies in 0 .. size-1.
C6_CursorInRange ==
    \A v \in Variants :
        size(v) >= 1 => (0 <= getCurrentIndex(v) /\ getCurrentIndex(v) <= size(v) - 1)
\* C6 (amended): the cursor is 0 at construction, and a cursor that is 0 or
\* an index the chain has stays so across every call other than delete, clear
\* and a setCurrentIndex whose index the chain does not have; so a chain driven
\* without those calls has its cursor in 0 .. size-1 whenever size >= 1.
CursorOk(v) == getCurrentIndex(v) = 0 \/ has(v, getCurrentIndex(v))
C6_CursorStaysInRange ==
    /\ \A v \in Variants : CursorOk(v)
    /\ [][\A v \in Variants :
             (/\ CursorOk(v)
              /\ call'.op \notin {"delete", "clear"}
              /\ call'.op = "setCurrentIndex" => has(v, call'.index))
                => (CursorOk(v)' /\ (size(v)' >= 1 =>
                       (0 <= getCurrentIndex(v)' /\ getCurrentIndex(v)' <= size(v)' - 1)))]_vars
C6_Witness ==
    /\ call.op = "setCurrentIndex" /\ call.index = MaxSize - 1
    /\ \A v \in Variants : size(v) = MaxSize /\ getCurrentIndex(v) = MaxSize - 1

\* C7 (as claimed): size grows only by add or a successful load, by one;
\* shrinks only by clear or delete; every other call leaves it unchanged.
C7_SizeChangesOnlyByAddLoadClearDelete ==
    [][\A v \in Variants :
          /\ size(v)' > size(v) =>
                /\ call'.op \in {"add", "load"}
                /\ thrown'[v] = {}
                /\ size(v)' = size(v) + 1
          /\ size(v)' < size(v) => call'.op \in {"clear", "delete"}
          /\ (\/ call'.op \in {"set", "update", "setCurrentIndex", "activate",
                               "deactivate", "enable", "disable"}
              \/ (call'.op = "load" /\ thrown'[v] # {}))
                => size(v)' = size(v)]_vars

\* C8: delete(i) with 0 <= i < size removes exactly the element at i: size
\* drops by one, the elements below i stay, the elements above move down by one.
C8_DeleteShiftsDown ==
    [][\A v \in Variants :
          (call'.op = "delete" /\ has(v, call'.index)) =>
              /\ size(v)' = size(v) - 1
              /\ \A j \in Elements(v) :
                    /\ j < call'.index => get(v, j)' = get(v, j)
                    /\ (call'.index <= j /\ j < size(v) - 1) =>
                          get(v, j)' = get(v, j + 1)]_vars
C8_Witness ==
    /\ call.op = "delete" /\ call.index = 0
    /\ \A v \in Variants : size(v) = MaxSize - 1 /\ get(v, 0) # undefined

\* C9 (as claimed): setCurrentIndex(index) raises nothing, makes currentIndex
\* equal index and leaves snapshots and flags alone; when index is outside
\* 0 .. size-1, has(index) is false and current reads absent.
C9_SetCurrentIndexUnchecked ==
    [][call'.op = "setCurrentIndex" =>
          /\ data' = data /\ active' = active /\ enabled' = enabled
          /\ \A v \in Variants :
                /\ thrown'[v] = {}
                /\ getCurrentIndex(v)' = call'.index
                /\ \A i \in Indexes :
                      (call'.index = i /\ ~(0 <= i /\ i <= size(v) - 1)) =>
                          (~has(v, i)' /\ current(v)' = undefined)]_vars

\* C10 (as claimed): right after clear, size is 0, has(i) is false for every
\* index and current, first(), last() and get(i) read absent, raising nothing.
C10_ClearEmpties ==
    call.op = "clear" =>
        \A v \in Variants :
            /\ thrown[v] = {}
            /\ size(v) = 0
            /\ \A i \in Indexes : ~has(v, i) /\ get(v, i) = undefined
            /\ current(v) = undefined
            /\ first(v) = undefined
            /\ last(v) = undefined

\* C11: update(i, partial) on a snapshot stored at i with 0 <= i < size is a
\* shallow merge: the element at i gets partial's value for every field of
\* partial and keeps its own value for every other field; size and the other
\* elements are unchanged; the same update applied again changes nothing.
C11_UpdateMerges ==
    [][\A v \in Variants : \A i \in StoreIndexes :
          (/\ call'.op = "update" /\ call'.index = i
           /\ has(v, i) /\ get(v, i) # undefined) =>
              /\ size(v)' = size(v)
              /\ \A j \in Elements(v) \ {i} : get(v, j)' = get(v, j)
              /\ ownKeys(get(v, i)') = ownKeys(get(v, i)) \cup ownKeys(call'.value)
              /\ \A f \in ownKeys(call'.value) : get(v, i)'[f] = call'.value[f]
              /\ \A f \in ownKeys(get(v, i)) \ ownKeys(call'.value) :
                    get(v, i)'[f] = get(v, i)[f]
              /\ update(v, data'[v], i, call'.value) = data'[v]]_vars
C11_Witness ==
    /\ call.op = "update" /\ call.value \in Partials /\ call.index = MaxSize - 1
    /\ \A v \in Variants :
          /\ has(v, call.index)
          /\ ownKeys(get(v, call.index)) = {"value", "writable"}
          /\ get(v, 0) # undefined

C13_FlagsIndependent ==
    /\ getActive("stateful") /\ getEnabled("stateful")
    /\ [][/\ call'.op = "activate" => getActive("stateful")'
          /\ call'.op = "deactivate" => ~getActive("stateful")'
          /\ call'.op = "enable" => getEnabled("stateful")'
          /\ call'.op = "disable" => ~getEnabled("stateful")'
          /\ call'.op \in {"activate", "deactivate"} =>
                /\ getEnabled("stateful")' = getEnabled("stateful")
                /\ data' = data /\ currentIndex' = currentIndex
          /\ call'.op \in {"enable", "disable"} =>
                /\ getActive("stateful")' = getActive("stateful")
                /\ data' = data /\ currentIndex' = currentIndex
          /\ call'.op \notin {"activate", "deactivate", "enable", "disable"} =>
                /\ getActive("stateful")' = getActive("stateful")
                /\ getEnabled("stateful")' = getEnabled("stateful")]_vars
C13_Witness ==
    /\ call.op = "activate"
    /\ getActive("stateful") /\ ~getEnabled("stateful")
    /\ size("stateful") >= 1 /\ getCurrentIndex("stateful") # 0

\* C14: the Minimal chain reports active = false and enabled = false in every
\* reachable state.
C14_MinimalFlagsFalse == ~getActive("minimal") /\ ~getEnabled("minimal")
C14_Witness ==
    /\ call.op = "activate"
    /\ getActive("stateful") /\ getEnabled("stateful")
    /\ ~getActive("minimal") /\ ~getEnabled("minimal")
    /\ size("minimal") >= 1

\* C15 (as claimed): on the stateful chain nextIndex and previousIndex are
\* currentIndex + 1 and currentIndex - 1, current, next and previous are the
\* elements there, and next (previous) reads absent whenever has(nextIndex)
\* (has(previousIndex)) is false.
C15_NeighboursAbsentOutOfRange ==
    /\ Base_nextIndex = Base_currentIndex + 1
    /\ Base_previousIndex = Base_currentIndex - 1
    /\ Base_current = Base_get(Base_currentIndex)
    /\ Base_next = Base_get(Base_currentIndex + 1)
    /\ Base_previous = Base_get(Base_currentIndex - 1)
    /\ ~Base_has(Base_nextIndex) => Base_next = undefined
    /\ ~Base_has(Base_previousIndex) => Base_previous = undefined

\* C16 (as claimed): has(index) is true exactly for 0 <= index < size, and
\* get, first, last and current read absent whenever the position they address
\* is outside 0 .. size-1.
C16_ReadsAbsentOutOfRange ==
    \A v \in Variants :
        /\ thrown[v] = {} \/ call.op = "load"
        /\ \A i \in Indexes :
              /\ has(v, i) <=> (0 <= i /\ i < size(v))
              /\ ~(0 <= i /\ i < size(v)) => get(v, i) = undefined
        /\ size(v) = 0 => first(v) = undefined
        /\ ~(0 <= lastIndex(v) /\ lastIndex(v) < size(v)) => last(v) = undefined
        /\ ~(0 <= getCurrentIndex(v) /\ getCurrentIndex(v) < size(v)) =>
              current(v) = undefined

\* C18: key and object are the values given to the constructor in every
\* reachable state: no call reassigns them.
C18_KeyAndObjectFixed ==
    /\ Minimal_key \in Keys /\ Base_key \in Keys /\ Base_object \in Objects
    /\ [][/\ Minimal_key' = Minimal_key
          /\ Base_key' = Base_key
          /\ Base_object' = Base_object]_vars
C18_Witness ==
    /\ call.op = "clear"
    /\ Minimal_key \in Keys /\ Base_key \in Keys /\ Base_object \in Objects
    /\ ~active /\ ~enabled /\ getCurrentIndex("stateful") # 0

C20_VariantsAgree ==
    /\ data.minimal = data.stateful
    /\ currentIndex.minimal = currentIndex.stateful
    /\ thrown.minimal = thrown.stateful
    /\ size("minimal") = size("stateful")
    /\ lastIndex("minimal") = lastIndex("stateful")
    /\ current("minimal") = current("stateful")
    /\ first("minimal") = first("stateful")
    /\ last("minimal") = last("stateful")
    /\ \A i \in Indexes :
          /\ get("minimal", i) = get("stateful", i)
          /\ has("minimal", i) = has("stateful", i)
C20_Witness ==
    /\ call.op = "update"
    /\ getActive("stateful") # getActive("minimal")
    /\ \A v \in Variants :
          /\ size(v) = MaxSize
          /\ get(v, 0) = undefined
          /\ getCurrentIndex(v) = MaxSize - 1
          /\ current(v) # undefined

\* C17: over an unchanged chain, entries() yields [0, snapshots[0]], ...,
\* [size-1, snapshots[size-1]] in ascending order and values() the same
\* snapshots in the same order; every call returns a fresh iterator starting at
\* index 0, and stepping one iterator neither advances nor exhausts another.
entriesOf(v) == [n \in 1..size(v) |-> <<n - 1, get(v, n - 1)>>]
valuesOf(v) == [n \in 1..size(v) |-> entriesOf(v)[n][2]]
C17_IteratorsYieldStorageInOrder ==
    \A v \in Variants : \A k \in IterIds :
        LET it == iters[v][k]
            all == IF it.kind = "entries" THEN entriesOf(v) ELSE valuesOf(v)
        IN  it.kind # "none" =>
                /\ it.next <= size(v)
                /\ it.out = SubSeq(all, 1, it.next)
                /\ it.done => it.out = all
C17_Witness ==
    \A v \in Variants :
        /\ size(v) = MaxSize
        /\ get(v, 0) = undefined
        /\ iters[v][1].kind = "entries" /\ iters[v][1].done
        /\ iters[v][1].out = entriesOf(v)
        /\ iters[v][2].kind = "values" /\ ~iters[v][2].done
        /\ Len(iters[v][2].out) = 1

====
